---- MODULE Spec2Model ----
(***************************************************************************)
(* Model of scripts/collect_validation_results.py: the results collector   *)
(* (ValidationResultsCollector) and its command-line entry point main().   *)
(*                                                                         *)
(* Floats are modelled by the rational they denote, as a reduced fraction  *)
(* [num, den]; a text (file content, test_output) is a sequence of lines;  *)
(* a Python dict is a record, the empty dict {} the empty function <<>>.   *)
(* The standard deviation is kept as [sqrt_of |-> variance].               *)
(***************************************************************************)
EXTENDS Integers, Sequences, FiniteSets, TLC

\* ------------------------------------------------------------------ bounds

\* Artifacts that may record a failing verdict in their text.
MaxFailing == 1
\* Room of the buffer of the report's file object, in units of one element of
\* the serialized document with no text in it (about 190 of the 8192 bytes).
BufferSize == 43
\* Longest results list a caller of the collector class hands to generate_report.
MaxResults == 32
\* Largest score of a caller-made result.
MaxScore == 2

\* ------------------------------------------------------------ float values

RECURSIVE GCD(_, _)
GCD(a, b) == IF b = 0 THEN a ELSE GCD(b, a % b)

Abs(n) == IF n < 0 THEN -n ELSE n

\* The float n/d (d > 0), reduced so that equal values are equal records.
Rat(n, d) ==
    LET g == GCD(Abs(n), d)
    IN  [num |-> n \div g, den |-> d \div g]

RatAdd(a, b) == Rat(a.num * b.den + b.num * a.den, a.den * b.den)
RatSub(a, b) == Rat(a.num * b.den - b.num * a.den, a.den * b.den)
RatMul(a, b) == Rat(a.num * b.num, a.den * b.den)
RatDivInt(a, n) == Rat(a.num, a.den * n)
RatLeq(a, b) == a.num * b.den <= b.num * a.den

\* --------------------------------------------------------------- registry

\* main(): the capability definitions (id, name, output file).
capabilities ==
    << <<3, "Cosmic Consciousness", "consciousness_complete_output.txt">>,
       <<4, "Meta-Cognition", "consciousness_complete_output.txt">>,
       <<5, "Self-Representation", "consciousness_complete_output.txt">>,
       <<7, "Bi-Temporal Control", "temporality_complete_output.txt">>,
       <<8, "Prediction", "temporality_complete_output.txt">>,
       <<9, "Temporal Evolution", "temporality_complete_output.txt">>,
       <<12, "Curiosity", "intentionality_complete_output.txt">>,
       <<13, "Intentional Force", "intentionality_complete_output.txt">>,
       <<14, "Intentional Coherence", "intentionality_complete_output.txt">>,
       <<15, "Autonomous Decisions", "intentionality_complete_output.txt">>,
       <<17, "Novelty", "creativity_complete_output.txt">>,
       <<18, "Originality", "creativity_complete_output.txt">>,
       <<22, "Autopoietic Health", "autopoiesis_complete_output.txt">>,
       <<25, "Metric Adaptation", "emergence_complete_output.txt">>,
       <<26, "Turing Instability", "emergence_complete_output.txt">>,
       <<27, "Criticality", "emergence_complete_output.txt">>,
       <<30, "Consolidation", "memory_complete_output.txt">>,
       <<31, "Selective Forgetting", "memory_complete_output.txt">>,
       <<32, "Associative Retrieval", "memory_complete_output.txt">>,
       <<33, "Memory Hierarchy", "memory_complete_output.txt">>,
       <<34, "Geodesic Intuition", "geometry_complete_output.txt">>,
       <<35, "Topological Torsion", "geometry_complete_output.txt">>,
       <<36, "Topological Formation", "geometry_complete_output.txt">>,
       <<37, "Adaptive Curvature", "geometry_complete_output.txt">>,
       <<39, "Global Coupling", "coupling_complete_output.txt">>,
       <<40, "Spatial Coherence", "coupling_complete_output.txt">>,
       <<41, "Phase Synchronization", "coupling_complete_output.txt">>,
       <<42, "Unified Consciousness", "coupling_complete_output.txt">>,
       <<43, "Modal Transformation", "multimodality_complete_output.txt">>,
       <<44, "Cross-Modal Coherence", "multimodality_complete_output.txt">>,
       <<45, "Cross-Modal Similarity", "multimodality_complete_output.txt">> >>

\* The output files the registry names (the artifacts of the results directory).
Artifacts == {capabilities[k][3] : k \in 1..Len(capabilities)}

\* ------------------------------------------------------------- file system

\* A path with no file behind it, and a file holding `data`.
NoFile == [exists |-> FALSE, data |-> <<>>]
FileOf(data) == [exists |-> TRUE, data |-> data]

\* ---------------------------------------------------------------- collector

\* ValidationResultsCollector.__init__: self.results, stamped with the clock.
NewResults(timestamp) ==
    [metadata |-> [timestamp |-> timestamp,
                   protocol |-> "Zero Tolerance v3.0",
                   total_capabilities |-> 31],
     capabilities |-> <<>>,
     statistics |-> <<>>,
     compliance |-> <<>>]

\* collect_capability_results with the status set outside the `if`.
collect_capability_results_status_outside_if(dir, capability_id, capability_name, test_output_file) ==
    [capability_id |-> capability_id,
     capability_name |-> capability_name,
     status |-> "TESTED",
     score |-> Rat(0, 1),
     statistical_validation |-> <<>>,
     test_output |-> IF dir[test_output_file].exists
                     THEN dir[test_output_file].data ELSE <<>>]

\* collect_capability_results attaching a verdict to a result it read.
collect_capability_results_sets_passed(dir, capability_id, capability_name, test_output_file) ==
    IF dir[test_output_file].exists
    THEN [capability_id |-> capability_id,
          capability_name |-> capability_name,
          status |-> "TESTED",
          score |-> Rat(0, 1),
          statistical_validation |-> <<>>,
          test_output |-> dir[test_output_file].data,
          passed |-> TRUE]
    ELSE [capability_id |-> capability_id,
          capability_name |-> capability_name,
          status |-> "NOT_TESTED",
          score |-> Rat(0, 1),
          statistical_validation |-> <<>>,
          test_output |-> <<>>]

\* collect_capability_results, on a results directory `dir` whose file opens
\* and reads without fault (the fault is the action ReadFault).
collect_capability_results(dir, capability_id, capability_name, test_output_file) ==
    LET result == [capability_id |-> capability_id,
                   capability_name |-> capability_name,
                   status |-> "NOT_TESTED",
                   score |-> Rat(0, 1),
                   statistical_validation |-> <<>>,
                   test_output |-> <<>>]
    IN  IF dir[test_output_file].exists
        THEN [result EXCEPT !.test_output = dir[test_output_file].data,
                            !.status = "TESTED"]
        ELSE result

\* c.get("passed", True)
GetPassedDefaultTrue(c) == IF "passed" \in DOMAIN c THEN c.passed ELSE TRUE

\* c.get("passed", False)
GetPassed(c) == IF "passed" \in DOMAIN c THEN c.passed ELSE FALSE

\* c.get("score", 0.0)
GetScore(c) == IF "score" \in DOMAIN c THEN c.score ELSE Rat(0, 1)

IsTested(c) == c.status = "TESTED"
IsTestedAndPassed(c) == c.status = "TESTED" /\ GetPassed(c)

\* check_compliance with the verdict taken from the tested count.
check_compliance_verdict_on_tested(caps) ==
    LET tested_count == Cardinality({k \in DOMAIN caps : caps[k].status = "TESTED"})
        passed_count == Cardinality({k \in DOMAIN caps :
                                        caps[k].status = "TESTED" /\ GetPassed(caps[k])})
    IN  [total_capabilities |-> 31,
         tested_capabilities |-> tested_count,
         passed_capabilities |-> passed_count,
         test_coverage |-> RatMul(Rat(tested_count, 31), Rat(100, 1)),
         success_rate |-> IF tested_count > 0
                          THEN RatMul(Rat(passed_count, tested_count), Rat(100, 1))
                          ELSE Rat(0, 1),
         zero_tolerance_met |-> (tested_count = 31),
         statistical_significance |-> TRUE,
         reproducibility |-> TRUE]

\* check_compliance with the coverage taken over the results ingested.
check_compliance_coverage_of_ingested(caps) ==
    LET tested_count == Cardinality({k \in DOMAIN caps : caps[k].status = "TESTED"})
        passed_count == Cardinality({k \in DOMAIN caps :
                                        caps[k].status = "TESTED" /\ GetPassed(caps[k])})
    IN  [total_capabilities |-> 31,
         tested_capabilities |-> tested_count,
         passed_capabilities |-> passed_count,
         test_coverage |-> IF caps = <<>> THEN Rat(0, 1)
                           ELSE RatMul(Rat(tested_count, Len(caps)), Rat(100, 1)),
         success_rate |-> IF tested_count > 0
                          THEN RatMul(Rat(passed_count, tested_count), Rat(100, 1))
                          ELSE Rat(0, 1),
         zero_tolerance_met |-> (passed_count = 31),
         statistical_significance |-> TRUE,
         reproducibility |-> TRUE]

\* check_compliance, on self.results["capabilities"].
check_compliance(caps) ==
    LET tested_count == Cardinality({k \in DOMAIN caps : IsTested(caps[k])})
        passed_count == Cardinality({k \in DOMAIN caps : IsTestedAndPassed(caps[k])})
    IN  [total_capabilities |-> 31,
         tested_capabilities |-> tested_count,
         passed_capabilities |-> passed_count,
         test_coverage |-> RatMul(Rat(tested_count, 31), Rat(100, 1)),
         success_rate |-> IF tested_count > 0
                          THEN RatMul(Rat(passed_count, tested_count), Rat(100, 1))
                          ELSE Rat(0, 1),
         zero_tolerance_met |-> (passed_count = 31),
         statistical_significance |-> TRUE,
         reproducibility |-> TRUE]

\* ---------------------------------------------------------------- statistics

\* sum(xs[lo..hi]), by halves
RECURSIVE SumRange(_, _, _)
SumRange(xs, lo, hi) ==
    IF lo > hi THEN Rat(0, 1)
    ELSE IF lo = hi THEN xs[lo]
    ELSE LET mid == (lo + hi) \div 2
         IN  RatAdd(SumRange(xs, lo, mid), SumRange(xs, mid + 1, hi))

SumSeq(xs) == SumRange(xs, 1, Len(xs))

\* sorted(xs): each element at its rank, equal elements in list order
Sorted(xs) ==
    LET Before(j, i) == \/ ~RatLeq(xs[i], xs[j])
                        \/ (xs[j] = xs[i] /\ j < i)
        Rank(i) == Cardinality({j \in DOMAIN xs : Before(j, i)}) + 1
    IN  [k \in DOMAIN xs |-> xs[CHOOSE i \in DOMAIN xs : Rank(i) = k]]

\* statistics.mean
Mean(xs) == RatDivInt(SumSeq(xs), Len(xs))

\* statistics.median: the middle of the sorted data, or the mean of the two middles
Median(xs) ==
    LET s == Sorted(xs)
        n == Len(xs)
    IN  IF n % 2 = 1 THEN s[(n + 1) \div 2]
        ELSE RatDivInt(RatAdd(s[n \div 2], s[n \div 2 + 1]), 2)

\* statistics.stdev: the root of the sample variance, the sum of the squared
\* deviations from the mean over n - 1, which is (n*sum(x^2) - sum(x)^2) / (n*(n-1))
Stdev(xs) ==
    LET n == Len(xs)
        sum == SumSeq(xs)
        sumsq == SumSeq([k \in DOMAIN xs |-> RatMul(xs[k], xs[k])])
    IN  [sqrt_of |-> RatDivInt(RatSub(RatMul(Rat(n, 1), sumsq), RatMul(sum, sum)),
                               n * (n - 1))]

\* compute_statistics
compute_statistics(scores) ==
    IF scores = <<>> THEN <<>>
    ELSE LET s == Sorted(scores)
         IN  [mean |-> Mean(scores),
              median |-> Median(scores),
              stdev |-> IF Len(scores) > 1 THEN Stdev(scores)
                        ELSE [sqrt_of |-> Rat(0, 1)],
              min |-> s[1],
              max |-> s[Len(s)],
              count |-> Len(scores)]

\* generate_report taking the score of every result, tested or not.
AllScores(caps) == [k \in DOMAIN caps |-> GetScore(caps[k])]

\* generate_report: the scores of the TESTED results, in list order
TestedScores(caps) ==
    LET tested == SelectSeq(caps, IsTested)
    IN  [k \in DOMAIN tested |-> GetScore(tested[k])]

\* generate_report, "Compute statistics" and "Check compliance"
WithStatisticsAndCompliance(res) ==
    [res EXCEPT !.statistics = compute_statistics(TestedScores(res.capabilities)),
                !.compliance = check_compliance(res.capabilities)]

\* json.dump(self.results, f, indent=2): the document as the sequence of its
\* elements, in key order (metadata, each capability, statistics, compliance).
Serialize(res) ==
    <<[key |-> "metadata", value |-> res.metadata]>>
    \o [k \in DOMAIN res.capabilities |->
           [key |-> "capabilities", value |-> res.capabilities[k]]]
    \o <<[key |-> "statistics", value |-> res.statistics],
         [key |-> "compliance", value |-> res.compliance]>>

\* A hole of a file: what a write past the end of the file leaves before it.
Hole == [key |-> "\\0", value |-> <<>>]

\* write(fd, block) at offset `pos` of a file holding `data`
WriteAt(data, pos, block) ==
    LET end == pos + Len(block)
        n == IF Len(data) > end THEN Len(data) ELSE end
    IN  [k \in 1..n |->
           IF k > pos /\ k <= end THEN block[k - pos]
           ELSE IF k <= Len(data) THEN data[k]
           ELSE Hole]

\* The size of an element of the document: one unit, and one more per line
\* of test output it carries.
ElementSize(e) ==
    1 + (IF e.key = "capabilities" THEN Len(e.value.test_output) ELSE 0)

\* The size of doc[lo..hi], by halves.
RECURSIVE SizeRange(_, _, _)
SizeRange(doc, lo, hi) ==
    IF lo > hi THEN 0
    ELSE IF lo = hi THEN ElementSize(doc[lo])
    ELSE LET mid == (lo + hi) \div 2
         IN  SizeRange(doc, lo, mid) + SizeRange(doc, mid + 1, hi)

\* The block the buffered writer flushes next, `pos` elements being written:
\* the elements that fit the buffer together (one at least).
NextBlock(doc, pos) ==
    LET fit == {j \in (pos + 1)..Len(doc) : SizeRange(doc, pos + 1, j) <= BufferSize}
        last == IF fit = {} THEN pos + 1
                ELSE CHOOSE j \in fit : \A i \in fit : i <= j
    IN  SubSeq(doc, pos + 1, last)

\* main with the exit codes swapped.
ExitCodeSwapped(compliance) == IF compliance.zero_tolerance_met THEN 1 ELSE 0

\* main: "Exit with appropriate code"
ExitCode(compliance) == IF compliance.zero_tolerance_met THEN 0 ELSE 1

\* main, "Collect results for each capability" and generate_report(), run to
\* the end with no fault at `timestamp` on the results directory `d`.
RunResults(timestamp, d) ==
    WithStatisticsAndCompliance(
        [NewResults(timestamp) EXCEPT !.capabilities =
            [k \in DOMAIN capabilities |->
                collect_capability_results(d, capabilities[k][1],
                                           capabilities[k][2], capabilities[k][3])]])

\* An empty results directory, and the report an earlier run left of it.
EmptyDir == [f \in Artifacts |-> NoFile]
OldReport == FileOf(Serialize(RunResults(0, EmptyDir)))

\* The text of an artifact: its name and the verdict of the test run behind it.
ArtifactText(f, verdict) == <<f, verdict>>

\* The registry entry that names the artifact f first.
FirstEntry(f) ==
    CHOOSE k \in DOMAIN capabilities :
        /\ capabilities[k][3] = f
        /\ \A j \in 1..(k - 1) : capabilities[j][3] # f

\* The artifacts whose test run may have failed: the first MaxFailing of them,
\* in registry order.
MayFail ==
    {f \in Artifacts :
        Cardinality({g \in Artifacts : FirstEntry(g) < FirstEntry(f)}) < MaxFailing}

\* The results directories: any set of artifacts present, each with a passing
\* verdict in its text, or a failing one if it may fail.
Directories ==
    {[f \in Artifacts |->
        IF f \in present
        THEN FileOf(ArtifactText(f, IF f \in failing THEN "FAIL" ELSE "PASS"))
        ELSE NoFile] :
     present \in SUBSET Artifacts, failing \in SUBSET MayFail}

\* A result as a caller of the class appends it: what collect_capability_results
\* returns, with a score and a verdict attached to a TESTED one.
CallerResult(k, kind) ==
    LET f == capabilities[((k - 1) % Len(capabilities)) + 1][3]
        d == [EmptyDir EXCEPT ![f] = IF kind = "NOT_TESTED" THEN NoFile
                                     ELSE FileOf(ArtifactText(f, "PASS"))]
        r == [collect_capability_results(d, k, "capability", f)
                 EXCEPT !.score = IF kind = "NOT_TESTED" THEN Rat(0, 1)
                                  ELSE Rat(k % (MaxScore + 1), 1)]
    IN  IF kind = "PASSED" THEN [x \in DOMAIN r \cup {"passed"} |->
                                    IF x = "passed" THEN TRUE ELSE r[x]]
        ELSE IF kind = "FAILED" THEN [x \in DOMAIN r \cup {"passed"} |->
                                    IF x = "passed" THEN FALSE ELSE r[x]]
        ELSE r

\* The results lists of a caller: nP passed, nU tested and not passed (a failed
\* verdict or none, in turn), nN not tested.
CallerResults(nP, nU, nN) ==
    [k \in 1..(nP + nU + nN) |->
        IF k <= nP THEN CallerResult(k, "PASSED")
        ELSE IF k <= nP + nU
             THEN CallerResult(k, IF k % 2 = 0 THEN "FAILED" ELSE "UNJUDGED")
        ELSE CallerResult(k, "NOT_TESTED")]

\* ------------------------------------------------------------------- state

VARIABLES
    procs,        \* the invocations (processes) of this behaviour
    entry,        \* entry[p]: what p runs, "main" or "generate_report"
    pc,           \* pc[p]: where p is
    now,          \* the clock datetime.utcnow() reads
    dir_exists,   \* whether validation_results/ exists
    dir,          \* dir[f]: the artifact f of validation_results/
    report,       \* validation_results/validation_report.json
    results,      \* results[p]: collector.results of p
    idx,          \* idx[p]: the registry entry p's loop is at
    fpos,         \* fpos[p]: offset of p's handle on the report
    exit_code,    \* exit_code[p]: -1 while p runs
    fault,        \* fault[p]: the call that raised in p, or "none"
    last_writer,  \* history: who changed the report last (0: nobody)
    prev_report   \* history: the report as the behaviour found it

vars == <<procs, entry, pc, now, dir_exists, dir, report, results, idx, fpos,
          exit_code, fault, last_writer, prev_report>>

fsvars == <<dir_exists, dir, report, last_writer>>

\* What every initial state shares, for the invocations P.
InitProcs(P, e, at) ==
    /\ procs = P
    /\ entry = [p \in P |-> e]
    /\ pc = [p \in P |-> at]
    /\ idx = [p \in P |-> 1]
    /\ fpos = [p \in P |-> 0]
    /\ exit_code = [p \in P |-> -1]
    /\ fault = [p \in P |-> "none"]
    /\ last_writer = 0
    /\ prev_report = report

\* One run of main, on any results directory.
Init ==
    /\ now = 1
    /\ dir_exists \in BOOLEAN
    /\ dir \in (IF dir_exists THEN Directories ELSE {EmptyDir})
    /\ report \in (IF dir_exists THEN {NoFile, OldReport} ELSE {NoFile})
    /\ results = [p \in {1} |-> NewResults(0)]
    /\ InitProcs({1}, "main", "start")

\* A caller that filled collector.results["capabilities"] and calls
\* generate_report.
InitCollector ==
    /\ now = 2
    /\ dir_exists = TRUE
    /\ dir = EmptyDir
    /\ report = NoFile
    /\ \E nP \in 0..MaxResults : \E nU \in 0..(MaxResults - nP) :
         \E nN \in 0..(MaxResults - nP - nU) :
           results = [p \in {1} |->
                        [NewResults(1) EXCEPT !.capabilities = CallerResults(nP, nU, nN)]]
    /\ InitProcs({1}, "generate_report", "generate")

\* Two runs of main at once on one results directory.
InitConcurrent ==
    /\ now = 1
    /\ dir_exists \in BOOLEAN
    /\ dir \in (IF dir_exists
                THEN {EmptyDir, [f \in Artifacts |-> FileOf(ArtifactText(f, "PASS"))]}
                ELSE {EmptyDir})
    /\ report \in (IF dir_exists THEN {NoFile, OldReport} ELSE {NoFile})
    /\ results = [p \in {1, 2} |-> NewResults(0)]
    /\ InitProcs({1, 2}, "main", "start")

\* ------------------------------------------------------------------ actions

\* An unhandled exception: the traceback, and exit status 1 of the interpreter.
Raise(p, call) ==
    /\ pc' = [pc EXCEPT ![p] = "crashed"]
    /\ fault' = [fault EXCEPT ![p] = call]
    /\ exit_code' = [exit_code EXCEPT ![p] = IF entry[p] = "main" THEN 1 ELSE @]

\* main: os.makedirs(..., exist_ok=True) and ValidationResultsCollector().
MainStart(p) ==
    /\ pc[p] = "start"
    /\ dir_exists' = TRUE
    /\ results' = [results EXCEPT ![p] = NewResults(now)]
    /\ now' = now + 1
    /\ idx' = [idx EXCEPT ![p] = 1]
    /\ pc' = [pc EXCEPT ![p] = "collect"]
    /\ UNCHANGED <<procs, entry, dir, report, fpos, exit_code, fault,
                   last_writer, prev_report>>

\* main: os.makedirs cannot create the directory.
MakedirsFault(p) ==
    /\ pc[p] = "start"
    /\ ~dir_exists
    /\ Raise(p, "makedirs")
    /\ UNCHANGED <<procs, entry, now, results, idx, fpos, fsvars, prev_report>>

\* main: one turn of the loop over the registry.
CollectStep(p) ==
    /\ pc[p] = "collect"
    /\ LET c == capabilities[idx[p]]
           result == collect_capability_results(dir, c[1], c[2], c[3])
       IN  results' = [results EXCEPT ![p].capabilities = Append(@, result)]
    /\ idx' = [idx EXCEPT ![p] = @ + 1]
    /\ pc' = [pc EXCEPT ![p] = IF idx[p] = Len(capabilities) THEN "generate"
                                ELSE "collect"]
    /\ UNCHANGED <<procs, entry, now, fpos, exit_code, fault, fsvars, prev_report>>

\* collect_capability_results: the file exists and open() or read() raises.
ReadFault(p) ==
    /\ pc[p] = "collect"
    /\ dir[capabilities[idx[p]][3]].exists
    /\ Raise(p, "read")
    /\ UNCHANGED <<procs, entry, now, results, idx, fpos, fsvars, prev_report>>

\* generate_report: statistics and compliance.
Generate(p) ==
    /\ pc[p] = "generate"
    /\ results' = [results EXCEPT ![p] = WithStatisticsAndCompliance(@)]
    /\ pc' = [pc EXCEPT ![p] = "open"]
    /\ UNCHANGED <<procs, entry, now, idx, fpos, exit_code, fault, fsvars,
                   prev_report>>

\* generate_report: open(output_path, 'w') creates or truncates the report.
OpenReport(p) ==
    /\ pc[p] = "open"
    /\ report' = FileOf(<<>>)
    /\ fpos' = [fpos EXCEPT ![p] = 0]
    /\ last_writer' = p
    /\ pc' = [pc EXCEPT ![p] = "write"]
    /\ UNCHANGED <<procs, entry, now, dir_exists, dir, results, idx, exit_code,
                   fault, prev_report>>

\* generate_report: open(output_path, 'w') raises.
OpenFault(p) ==
    /\ pc[p] = "open"
    /\ Raise(p, "open")
    /\ UNCHANGED <<procs, entry, now, results, idx, fpos, fsvars, prev_report>>

\* generate_report: json.dump, one flush of the buffer to the file; the last
\* one is the flush of close().
WriteBlock(p) ==
    /\ pc[p] = "write"
    /\ LET doc == Serialize(results[p])
           block == NextBlock(doc, fpos[p])
       IN  /\ report' = FileOf(WriteAt(report.data, fpos[p], block))
           /\ fpos' = [fpos EXCEPT ![p] = @ + Len(block)]
           /\ pc' = [pc EXCEPT ![p] = IF fpos[p] + Len(block) = Len(doc)
                                       THEN "print" ELSE "write"]
    /\ last_writer' = p
    /\ UNCHANGED <<procs, entry, now, dir_exists, dir, results, idx, exit_code,
                   fault, prev_report>>

\* generate_report: a flush raises (disk full, I/O error).
WriteFault(p) ==
    /\ pc[p] = "write"
    /\ Raise(p, "write")
    /\ UNCHANGED <<procs, entry, now, results, idx, fpos, fsvars, prev_report>>

\* generate_report: print the path and return self.results.
ReportPrinted(p) ==
    /\ pc[p] = "print"
    /\ pc' = [pc EXCEPT ![p] = IF entry[p] = "main" THEN "summary" ELSE "returned"]
    /\ UNCHANGED <<procs, entry, now, results, idx, fpos, exit_code, fault,
                   fsvars, prev_report>>

\* print_summary.
PrintSummary(p) ==
    /\ pc[p] = "summary"
    /\ pc' = [pc EXCEPT ![p] = "exit"]
    /\ UNCHANGED <<procs, entry, now, results, idx, fpos, exit_code, fault,
                   fsvars, prev_report>>

\* print raises (closed or non-UTF-8 standard output).
PrintFault(p) ==
    /\ pc[p] \in {"print", "summary"}
    /\ Raise(p, "print")
    /\ UNCHANGED <<procs, entry, now, results, idx, fpos, fsvars, prev_report>>

\* main: sys.exit.
Exit(p) ==
    /\ pc[p] = "exit"
    /\ exit_code' = [exit_code EXCEPT ![p] = ExitCode(results[p].compliance)]
    /\ pc' = [pc EXCEPT ![p] = "exited"]
    /\ UNCHANGED <<procs, entry, now, results, idx, fpos, fault, fsvars,
                   prev_report>>

\* generate_report, every step of it.
GenerateReport(p) ==
    \/ Generate(p)
    \/ OpenReport(p)
    \/ OpenFault(p)
    \/ WriteBlock(p)
    \/ WriteFault(p)
    \/ ReportPrinted(p)

\* main, every step of it.
Main(p) ==
    \/ MainStart(p)
    \/ MakedirsFault(p)
    \/ CollectStep(p)
    \/ ReadFault(p)
    \/ GenerateReport(p)
    \/ PrintSummary(p)
    \/ PrintFault(p)
    \/ Exit(p)

Next == Main(1)

NextCollector == GenerateReport(1)

NextConcurrent == \E p \in {1, 2} : Main(p)

Spec == Init /\ [][Next]_vars
SpecCollector == InitCollector /\ [][NextCollector]_vars
SpecConcurrent == InitConcurrent /\ [][NextConcurrent]_vars

\* ------------------------------------------------------------------ claims

\* The TESTED results of a list, and those of them with passed = true.
TestedIn(caps) == {k \in DOMAIN caps : caps[k].status = "TESTED"}
PassedIn(caps) ==
    {k \in TestedIn(caps) : "passed" \in DOMAIN caps[k] /\ caps[k].passed = TRUE}

\* generate_report of invocation 1 has computed statistics and compliance.
Reported == pc[1] \in {"open", "write", "print", "summary", "exit", "exited", "returned"}
             \/ (pc[1] = "crashed" /\ fault[1] \in {"open", "write", "print"})

Hundred == Rat(100, 1)
Zero == Rat(0, 1)

\* C1: in every compliance report, zero_tolerance_met is true exactly when
\* passed_capabilities equals total_capabilities, the size of the registry.
C1_ZeroToleranceIffAllPassed ==
    Reported =>
        LET c == results[1].compliance
        IN  /\ c.total_capabilities = Len(capabilities)
            /\ c.passed_capabilities = Cardinality(PassedIn(results[1].capabilities))
            /\ c.zero_tolerance_met = (c.passed_capabilities = c.total_capabilities)

\* C1 witness: a report of a list with every registry entry tested and passed.
C1_Witness ==
    /\ Reported
    /\ results[1].compliance.zero_tolerance_met
    /\ results[1].compliance.passed_capabilities = 31

\* C3: with t of the results TESTED, t in 0..N for the registry size N, the
\* reported test_coverage is t/N*100, within [0,100], whatever the number of
\* results in the list.
C3_CoverageOverRegistry ==
    Reported =>
        LET caps == results[1].capabilities
            t == Cardinality(TestedIn(caps))
            cov == results[1].compliance.test_coverage
        IN  t <= Len(capabilities) =>
                /\ cov = Rat(t * 100, Len(capabilities))
                /\ RatLeq(Zero, cov)
                /\ RatLeq(cov, Hundred)

\* C3 witness: a list shorter than the registry with some results TESTED.
C3_Witness ==
    /\ Reported
    /\ Len(results[1].capabilities) < Len(capabilities)
    /\ Cardinality(TestedIn(results[1].capabilities)) > 0
    /\ Cardinality(TestedIn(results[1].capabilities)) = Len(results[1].capabilities)

\* C4: success_rate is passed/tested*100 when a result is TESTED and 0.0 when
\* none is, passed counting the TESTED results whose passed field is true; the
\* report is computed for every list (no division by zero).
C4_SuccessRate ==
    Reported =>
        LET caps == results[1].capabilities
            t == Cardinality(TestedIn(caps))
            ps == Cardinality(PassedIn(caps))
            c == results[1].compliance
        IN  /\ c.tested_capabilities = t
            /\ c.passed_capabilities = ps
            /\ c.success_rate = IF t > 0 THEN Rat(ps * 100, t) ELSE Zero

\* C4 witness: a report of a list with a passed result, a TESTED result with no
\* passed field and a TESTED result with passed = false.
C4_Witness ==
    /\ Reported
    /\ LET caps == results[1].capabilities
       IN  /\ PassedIn(caps) # {}
           /\ \E k \in TestedIn(caps) : "passed" \notin DOMAIN caps[k]
           /\ \E k \in TestedIn(caps) : "passed" \in DOMAIN caps[k] /\ ~caps[k].passed

\* C9: the statistics summary is the empty summary exactly when no result is
\* TESTED, and otherwise counts the TESTED results; with no TESTED result the
\* compliance is still computed, coverage 0 and success rate 0.
C9_StatisticsOfTestedOnly ==
    Reported =>
        LET caps == results[1].capabilities
            t == Cardinality(TestedIn(caps))
            st == results[1].statistics
            c == results[1].compliance
        IN  /\ (st = <<>>) = (t = 0)
            /\ t > 0 => /\ st.count = t
                        /\ st.count = c.tested_capabilities
            /\ t = 0 => /\ DOMAIN st = {}
                        /\ c.test_coverage = Zero
                        /\ c.success_rate = Zero

\* C9 witness: a report of a non-empty list with no TESTED result.
C9_Witness ==
    /\ Reported
    /\ results[1].capabilities # <<>>
    /\ TestedIn(results[1].capabilities) = {}
    /\ results[1].statistics = <<>>

\* The loop of main over the registry has ended in invocation p.
Ingested(p) ==
    \/ pc[p] \in {"generate", "open", "write", "print", "summary", "exit", "exited"}
    \/ (pc[p] = "crashed" /\ fault[p] \in {"open", "write", "print"})

\* C2: a run of main ends with exit code 0 exactly when its compliance report
\* has zero_tolerance_met, every other completed run ends with exit code 1,
\* and a run stopped by an unhandled fault never ends with exit code 0.
C2_ExitCodeIffZeroTolerance ==
    /\ pc[1] = "exited" =>
          /\ exit_code[1] \in {0, 1}
          /\ (exit_code[1] = 0) = results[1].compliance.zero_tolerance_met
    /\ pc[1] = "crashed" => exit_code[1] = 1
    /\ pc[1] \notin {"exited", "crashed"} => exit_code[1] = -1

\* C2 witness: a completed run whose report misses the standard, exit code 1.
C2_Witness ==
    /\ pc[1] = "exited"
    /\ exit_code[1] = 1
    /\ ~results[1].compliance.zero_tolerance_met
    /\ results[1].compliance.tested_capabilities = 31

\* C5: after the ingestion loop the capabilities list holds one result per
\* registry entry, in registry order; a result is TESTED exactly when its
\* artifact existed (and was read: its test_output is the file's text), and
\* otherwise NOT_TESTED with empty output, score 0.0 and no passed field.
C5_OneResultPerCapability ==
    Ingested(1) =>
        LET caps == results[1].capabilities
        IN  /\ Len(caps) = Len(capabilities)
            /\ \A k \in DOMAIN capabilities :
                 LET f == capabilities[k][3]
                 IN  /\ caps[k].capability_id = capabilities[k][1]
                     /\ caps[k].capability_name = capabilities[k][2]
                     /\ caps[k].status \in {"TESTED", "NOT_TESTED"}
                     /\ (caps[k].status = "TESTED") = dir[f].exists
                     /\ caps[k].status = "TESTED" =>
                            caps[k].test_output = dir[f].data
                     /\ caps[k].status = "NOT_TESTED" =>
                            /\ caps[k].test_output = <<>>
                            /\ caps[k].score = Zero
                            /\ "passed" \notin DOMAIN caps[k]

\* C5 witness: the loop has ended on a directory with the artifact of the first
\* three registry entries present and the artifact of the last three absent.
C5_Witness ==
    /\ pc[1] = "generate"
    /\ dir[capabilities[1][3]].exists
    /\ ~dir[capabilities[31][3]].exists
    /\ \A k \in 1..3 : results[1].capabilities[k].status = "TESTED"
    /\ \A k \in 29..31 : results[1].capabilities[k].status = "NOT_TESTED"

\* Every artifact of the registry is present, with a passing verdict.
AllPresentAndPassed ==
    \A f \in Artifacts : dir[f] = FileOf(ArtifactText(f, "PASS"))

\* C6: with all artifacts of the 31 capabilities present and marked passed, a
\* run reports tested=31, passed=31, coverage 100, success rate 100 and
\* zero_tolerance_met, and ends with exit code 0.
C6_AllPassedScenario ==
    (pc[1] = "exited" /\ AllPresentAndPassed) =>
        LET c == results[1].compliance
        IN  /\ c.tested_capabilities = 31
            /\ c.passed_capabilities = 31
            /\ c.test_coverage = Hundred
            /\ c.success_rate = Hundred
            /\ c.zero_tolerance_met
            /\ exit_code[1] = 0

\* C7: a fault of open() or read() on an artifact that exists never stops the
\* run: the capability is recorded NOT_TESTED and the run goes on.
C7_IngestionFaultNeverAborts ==
    \A p \in procs : ~(pc[p] = "crashed" /\ fault[p] = "read")

\* C8: the report path holds at every point the report it held before the run
\* (or no file) or the complete report of the run.
C8_ReportWrittenAtomically ==
    \/ report = prev_report
    \/ (Ingested(1) /\ pc[1] # "generate"
        /\ report = FileOf(Serialize(results[1])))

\* C10: once two concurrent runs have both finished, the report is the
\* complete report of the run that wrote to it last.
C10_LastWriterWins ==
    (procs = {1, 2} /\ \A p \in procs : pc[p] = "exited") =>
        /\ last_writer \in procs
        /\ report = FileOf(Serialize(results[last_writer]))

\* C11: ingestion sets the passed field on no result, so whatever the results
\* directory holds, a run of main reports passed_capabilities = 0 and
\* zero_tolerance_met = false, and ends with exit code 1.
C11_MainAlwaysPessimistic ==
    /\ \A k \in DOMAIN results[1].capabilities :
          "passed" \notin DOMAIN results[1].capabilities[k]
    /\ Reported =>
          /\ results[1].compliance.passed_capabilities = 0
          /\ results[1].compliance.zero_tolerance_met = FALSE
    /\ pc[1] \in {"exited", "crashed"} => exit_code[1] = 1
    /\ exit_code[1] # 0

\* C11 witness: a completed run on a directory with every artifact present and
\* passing: 31 tested, none passed, exit code 1.
C11_Witness ==
    /\ pc[1] = "exited"
    /\ AllPresentAndPassed
    /\ results[1].compliance.tested_capabilities = 31
    /\ results[1].compliance.passed_capabilities = 0
    /\ exit_code[1] = 1

====
